---- MODULE Spec2Model ----
(***************************************************************************)
(* Route exploration of the regatta planner (src/src/optimize.rs) over the *)
(* graph built by src/src/data.rs.                                         *)
(*                                                                         *)
(* Conventions.  A Rust Vec<T> is a TLA+ sequence; the Rust index i        *)
(* (0-based) is element i+1 of the sequence (operator At).  Option<T> is a *)
(* sequence of length at most one (None, Some).  Times are whole numbers   *)
(* of 1/TimeScale hour, so 0.4 h is 24; distances are whole nautical       *)
(* miles, speeds whole knots and angles whole degrees.  u8 values are kept *)
(* modulo U8Mod.                                                           *)
(***************************************************************************)
EXTENDS Integers, Sequences, FiniteSets, TLC

VARIABLES data, graph, pc, call, stack, all_paths, result

vars == <<data, graph, pc, call, stack, all_paths, result>>

(***************************************************************************)
(* Bounds of the model                                                     *)
(***************************************************************************)
MaxSteps == 4
MaxPathsArg == 2

(***************************************************************************)
(* Rust basics                                                             *)
(***************************************************************************)
None == <<>>
Some(x) == <<x>>
IsSome(o) == Len(o) = 1
Unwrap(o) == o[1]
At(vec, i) == vec[i + 1]
U8Mod == 256
AsU8(n) == n % U8Mod
TimeScale == 60

RECURSIVE Reverse(_)
Reverse(s) == IF s = <<>> THEN <<>> ELSE Append(Reverse(Tail(s)), Head(s))

RECURSIVE Flatten(_)
Flatten(ss) == IF ss = <<>> THEN <<>> ELSE Head(ss) \o Flatten(Tail(ss))

Abs(x) == IF x < 0 THEN -x ELSE x

\* f64::NAN, the one value of a time that is no number; it is kept apart from
\* every time in use.  Every ordered comparison with it is false and every
\* sum with it is NaN again.
NAN == -1000000
f64_lt(a, b) == a # NAN /\ b # NAN /\ a < b
f64_gt(a, b) == a # NAN /\ b # NAN /\ a > b
f64_add(a, b) == IF a = NAN \/ b = NAN THEN NAN ELSE a + b

(***************************************************************************)
(* Data tables (data.rs)                                                   *)
(***************************************************************************)
Boei(name, lat, long) == [name |-> name, lat |-> lat, long |-> long]
Start(from, to, distance, max_number) ==
    [from |-> from, to |-> to, distance |-> distance, max_number |-> max_number]
Rak(from, to, distance, max_number) ==
    [from |-> from, to |-> to, distance |-> distance, max_number |-> max_number]
has_coordinates(boei) == IsSome(boei.lat) /\ IsSome(boei.long)

(***************************************************************************)
(* Polar table lookup (data.rs, PolarData)                                 *)
(***************************************************************************)
\* variant: a later value at the same distance replaces the earlier one
RECURSIVE ClosestScan_last_seen(_, _, _, _, _)
ClosestScan_last_seen(values, target, idx, closest_idx, closest_diff) ==
    IF idx > Len(values) THEN closest_idx
    ELSE LET diff == Abs(values[idx] - target)
         IN  IF diff <= closest_diff
               THEN ClosestScan_last_seen(values, target, idx + 1, idx, diff)
               ELSE ClosestScan_last_seen(values, target, idx + 1, closest_idx,
                                          closest_diff)

RECURSIVE ClosestScan(_, _, _, _, _)
ClosestScan(values, target, idx, closest_idx, closest_diff) ==
    IF idx > Len(values) THEN closest_idx
    ELSE LET diff == Abs(values[idx] - target)
         IN  IF diff < closest_diff
               THEN ClosestScan(values, target, idx + 1, idx, diff)
               ELSE ClosestScan(values, target, idx + 1, closest_idx, closest_diff)

\* Some(0-based index of the closest value), None for an empty axis
_find_closest_index(values, target) ==
    IF values = <<>> THEN None
    ELSE Some(ClosestScan(values, target, 1, 1, Abs(values[1] - target)) - 1)

get_boat_speed(polar_data, wind_angle, wind_speed) ==
    LET angle_idx == _find_closest_index(polar_data.wind_angles, wind_angle)
        speed_idx == _find_closest_index(polar_data.wind_speeds, wind_speed)
    IN  At(At(polar_data.boat_speeds, Unwrap(angle_idx)), Unwrap(speed_idx))

(***************************************************************************)
(* Wind schedule: hourly samples [time, wind_speed, wind_angle]; the       *)
(* implementation is not part of the sources, the operators follow the     *)
(* specification of the wind schedule.                                     *)
(***************************************************************************)
get_wind_at_hour(wind_data, hour) ==
    LET hits == SelectSeq(wind_data, LAMBDA c : c.time = hour)
    IN  IF hits = <<>> THEN None ELSE Some(Head(hits))

\* linear interpolation between the samples of two consecutive hours
get_wind_at_time(wind_data, time) ==
    LET hour == time \div TimeScale
        frac == time % TimeScale
        lo   == get_wind_at_hour(wind_data, hour)
        hi   == get_wind_at_hour(wind_data, hour + 1)
    IN  IF time = NAN \/ time < 0 \/ ~IsSome(lo) THEN None
        ELSE IF frac = 0 THEN lo
        ELSE IF ~IsSome(hi) THEN None
        ELSE LET a == Unwrap(lo)
                 b == Unwrap(hi)
             IN  Some([time       |-> a.time,
                       wind_speed |-> a.wind_speed
                            + ((b.wind_speed - a.wind_speed) * frac) \div TimeScale,
                       wind_angle |-> a.wind_angle
                            + ((b.wind_angle - a.wind_angle) * frac) \div TimeScale])

(***************************************************************************)
(* Performance estimator (optimize.rs)                                     *)
(***************************************************************************)
\* Initial great-circle bearing, normalised to [0, 360).  The model keeps
\* buoys on whole-degree positions; on one meridian and on the equator the
\* atan2 formula gives the cardinal bearings exactly, a diagonal of one
\* degree is rounded to the whole degree (44.996 -> 45).
course_bearing(s_lat, s_lon, t_lat, t_lon) ==
    LET d_lon == t_lon - s_lon
        d_lat == t_lat - s_lat
        raw   == IF d_lon = 0 THEN (IF d_lat >= 0 THEN 0 ELSE 180)
                 ELSE IF d_lat = 0 THEN (IF d_lon > 0 THEN 90 ELSE -90)
                 ELSE IF d_lon > 0 THEN (IF d_lat > 0 THEN 45 ELSE 135)
                 ELSE (IF d_lat > 0 THEN -45 ELSE -135)
    IN  (raw + 360) % 360

\* the wind used by the estimator, with its fallbacks; the cast of a negative
\* or NaN hour to u32 saturates to hour 0
wind_for_estimate(wind_data, time) ==
    LET w == get_wind_at_time(wind_data, time)
    IN  IF IsSome(w) THEN Unwrap(w)
        ELSE LET fl   == time \div TimeScale
                 hour == IF fl < 0 THEN 0 ELSE IF fl > 24 THEN 24 ELSE fl
                 h    == get_wind_at_hour(wind_data, hour)
             IN  IF IsSome(h) THEN Unwrap(h)
                 ELSE Unwrap(get_wind_at_hour(wind_data, 0))

\* the unwrap() calls on the coordinates panic when one is missing
estimate_panics(d, from, to) ==
    \/ ~has_coordinates(At(d.boeien, from))
    \/ ~has_coordinates(At(d.boeien, to))

\* variant: the relative bearing is not folded into the half circle
estimate_leg_performance_no_fold(d, from, to, time) ==
    LET source == At(d.boeien, from)
        target == At(d.boeien, to)
        cb     == course_bearing(Unwrap(source.lat), Unwrap(source.long),
                                 Unwrap(target.lat), Unwrap(target.long))
        wind   == wind_for_estimate(d.wind_data, time)
        rb     == Abs(wind.wind_angle - cb)
    IN  [estimated_speed  |-> get_boat_speed(d.polar_data, rb, wind.wind_speed),
         course_bearing   |-> cb,
         wind_direction   |-> wind.wind_angle,
         relative_bearing |-> rb,
         wind_speed       |-> wind.wind_speed]

estimate_leg_performance(d, from, to, time) ==
    LET source == At(d.boeien, from)
        target == At(d.boeien, to)
        cb     == course_bearing(Unwrap(source.lat), Unwrap(source.long),
                                 Unwrap(target.lat), Unwrap(target.long))
        wind   == wind_for_estimate(d.wind_data, time)
        rb0    == Abs(wind.wind_angle - cb)
        rb     == IF rb0 > 180 THEN 360 - rb0 ELSE rb0
    IN  [estimated_speed  |-> get_boat_speed(d.polar_data, rb, wind.wind_speed),
         course_bearing   |-> cb,
         wind_direction   |-> wind.wind_angle,
         relative_bearing |-> rb,
         wind_speed       |-> wind.wind_speed]

(***************************************************************************)
(* Graph builder (data.rs)                                                 *)
(***************************************************************************)
\* HashMap name -> node index; a later buoy of the same name overwrites
node_indices(d) ==
    [n \in {d.boeien[i].name : i \in DOMAIN d.boeien} |->
        (CHOOSE i \in DOMAIN d.boeien :
            /\ d.boeien[i].name = n
            /\ \A j \in DOMAIN d.boeien : d.boeien[j].name = n => j <= i) - 1]

\* edge weight; the tags is_start / forwards / index are those read by the
\* explorer and printed by the CLI
RegattaEdge(distance, is_start, forwards, index) ==
    [distance |-> distance, is_start |-> is_start, forwards |-> forwards,
     index |-> index]

GraphEdge(source, target, weight) ==
    [source |-> source, target |-> target, weight |-> weight]

\* variant: a start row is entered in both directions, like a leg
start_edges_both_directions(d, k) ==
    LET start == At(d.starts, k)
        ni    == node_indices(d)
    IN  IF start.from \in DOMAIN ni /\ start.to \in DOMAIN ni
          THEN << GraphEdge(ni[start.from], ni[start.to],
                            RegattaEdge(start.distance, TRUE, TRUE, k)),
                  GraphEdge(ni[start.to], ni[start.from],
                            RegattaEdge(start.distance, TRUE, FALSE, k)) >>
          ELSE <<>>

start_edges(d, k) ==
    LET start == At(d.starts, k)
        ni    == node_indices(d)
    IN  IF start.from \in DOMAIN ni /\ start.to \in DOMAIN ni
          THEN << GraphEdge(ni[start.from], ni[start.to],
                            RegattaEdge(start.distance, TRUE, TRUE, k)) >>
          ELSE <<>>

rak_edges(d, k) ==
    LET rak == At(d.rakken, k)
        ni  == node_indices(d)
    IN  IF rak.from \in DOMAIN ni /\ rak.to \in DOMAIN ni
          THEN << GraphEdge(ni[rak.from], ni[rak.to],
                            RegattaEdge(rak.distance, FALSE, TRUE, k)),
                  GraphEdge(ni[rak.to], ni[rak.from],
                            RegattaEdge(rak.distance, FALSE, FALSE, k)) >>
          ELSE <<>>

\* nodes in table order, then the start edges, then the leg edges
build_regatta_graph(d) ==
    [node_count |-> Len(d.boeien),
     edges |-> Flatten([k \in 1..Len(d.starts) |-> start_edges(d, k - 1)])
               \o Flatten([k \in 1..Len(d.rakken) |-> rak_edges(d, k - 1)])]

\* variant: the outgoing edges in the order they were added
edges_insertion_order(g, node) ==
    SelectSeq(g.edges, LAMBDA e : e.source = node)

\* graph.edges(node): the outgoing edges of a node; petgraph's adjacency
\* list yields them most recently added first
edges(g, node) ==
    Reverse(SelectSeq(g.edges, LAMBDA e : e.source = node))

(***************************************************************************)
(* Path explorer (optimize.rs): records                                    *)
(***************************************************************************)
Step(from, to, distance, speed, start_time, end_time) ==
    [from |-> from, to |-> to, distance |-> distance, speed |-> speed,
     start_time |-> start_time, end_time |-> end_time]

\* variant: the two totals stored in each other's field
Path_swapped_totals(steps, total_distance, end_time) ==
    [steps |-> steps, total_distance |-> end_time, end_time |-> total_distance]

Path(steps, total_distance, end_time) ==
    [steps |-> steps, total_distance |-> total_distance, end_time |-> end_time]

PathExplorationState(current_point, current_time, remaining_steps, current_steps, edges_used, total_distance) ==
    [current_point |-> current_point, current_time |-> current_time,
     remaining_steps |-> remaining_steps, current_steps |-> current_steps,
     edges_used |-> edges_used, total_distance |-> total_distance]

TargetPathExplorationState(current_point, target_point, current_time, remaining_steps, current_steps, edges_used, rak_usage, total_distance) ==
    [current_point |-> current_point, target_point |-> target_point,
     current_time |-> current_time, remaining_steps |-> remaining_steps,
     current_steps |-> current_steps, edges_used |-> edges_used,
     rak_usage |-> rak_usage, total_distance |-> total_distance]

\* variant: the counters of a new call start at one
ZeroVec_ones(n) == [i \in 1..n |-> 1]

\* vec![0u8; n]
ZeroVec(n) == [i \in 1..n |-> 0]

\* One activation of a recursive function: its state argument, the position
\* of its edge iterator (1 = first edge of graph.edges(current_node)) and
\* whether a recursive call has just returned into it.
Frame(state, pos, returned) == [state |-> state, pos |-> pos, returned |-> returned]

Top == stack[Len(stack)]
Callers == SubSeq(stack, 1, Len(stack) - 1)
TopEdges == edges(graph, Top.state.current_point)
TopEdge == TopEdges[Top.pos]

\* index of an edge's entity in the combined usage array
edge_index(d, edge_weight) ==
    IF edge_weight.is_start THEN edge_weight.index
    ELSE Len(d.starts) + edge_weight.index

max_usage(d, edge_weight) ==
    IF edge_weight.is_start THEN At(d.starts, edge_weight.index).max_number
    ELSE At(d.rakken, edge_weight.index).max_number

\* variant: only the forward direction of a leg is held to the limit
usage_exhausted_forward_only(d, state, edge_weight) ==
    /\ edge_weight.is_start \/ edge_weight.forwards
    /\ At(state.edges_used, edge_index(d, edge_weight))
          >= AsU8(max_usage(d, edge_weight))

\* variant: the limit is reached one traversal early
usage_exhausted_one_early(d, state, edge_weight) ==
    At(state.edges_used, edge_index(d, edge_weight)) + 1
        >= AsU8(max_usage(d, edge_weight))

\* variant: the comparison is strict, one traversal too many is admitted
usage_exhausted_strict(d, state, edge_weight) ==
    At(state.edges_used, edge_index(d, edge_weight)) > AsU8(max_usage(d, edge_weight))

\* state.edges_used[edge_index] >= max_usage as u8
usage_exhausted(d, state, edge_weight) ==
    At(state.edges_used, edge_index(d, edge_weight)) >= AsU8(max_usage(d, edge_weight))

\* variant: the cap of two traversals per leg is not applied
rak_exhausted_never(state, edge_weight) == FALSE

\* state.rak_usage[rak_index] >= 2, for leg edges only
rak_exhausted(state, edge_weight) ==
    /\ ~edge_weight.is_start
    /\ At(state.rak_usage, edge_weight.index) >= 2

\* variant: a leg without speed takes no time instead of the 1 knot time
travel_time_zero_when_no_speed(distance, speed) ==
    IF speed > 0 THEN (distance * TimeScale) \div speed
    ELSE 0

\* variant: the 1 knot fallback is used for every speed
travel_time_fallback_always(distance, speed) == (distance * TimeScale) \div 1

travel_time(distance, speed) ==
    IF speed > 0 THEN (distance * TimeScale) \div speed
    ELSE (distance * TimeScale) \div 1

\* variant: the speed is the estimate for the time the exploration started
make_step_speed_at_call_time(d, state, e) ==
    LET speed == estimate_leg_performance(d, state.current_point, e.target,
                                          call.start_time).estimated_speed
    IN  Step(state.current_point, e.target, e.weight.distance, speed,
             state.current_time,
             f64_add(state.current_time, travel_time(e.weight.distance, speed)))

\* variant: every step is timed from the start of the exploration
make_step_starts_at_call_time(d, state, e) ==
    LET speed == estimate_leg_performance(d, state.current_point, e.target,
                                          state.current_time).estimated_speed
    IN  Step(state.current_point, e.target, e.weight.distance, speed,
             call.start_time,
             f64_add(call.start_time, travel_time(e.weight.distance, speed)))

\* the Step built for an edge taken from a state
make_step(d, state, e) ==
    LET speed == estimate_leg_performance(d, state.current_point, e.target,
                                          state.current_time).estimated_speed
    IN  Step(state.current_point, e.target, e.weight.distance, speed,
             state.current_time,
             f64_add(state.current_time, travel_time(e.weight.distance, speed)))

\* new_edges_used[edge_index] += 1 on a clone; the counter is below the
\* narrowed limit (at most 255) when it is incremented, so the u8 addition
\* cannot overflow
bump(vec, i) == [vec EXCEPT ![i + 1] = AsU8(@ + 1)]

\* all_paths.len() >= max_paths, where max_paths is the Option's value or
\* usize::MAX, which no length reaches
reached_max_paths(len, max_paths) ==
    IsSome(max_paths) /\ len >= Unwrap(max_paths)

\* variant: the usage vector is one vector shared with the callee, whose
\* increments the caller sees after the return
ReturnPaths_shares_usage ==
    IF Len(stack) = 1 THEN <<>>
    ELSE LET parent == stack[Len(stack) - 1]
         IN  Append(SubSeq(stack, 1, Len(stack) - 2),
                    Frame([parent.state EXCEPT
                              !.edges_used = Top.state.edges_used],
                          parent.pos + 1, FALSE))

\* return of the top activation to its caller
ReturnPaths ==
    IF Len(stack) = 1 THEN <<>>
    ELSE LET parent == stack[Len(stack) - 1]
         IN  Append(SubSeq(stack, 1, Len(stack) - 2),
                    Frame(parent.state, parent.pos + 1, FALSE))

ReturnTarget ==
    IF Len(stack) = 1 THEN <<>>
    ELSE LET parent == stack[Len(stack) - 1]
         IN  Append(SubSeq(stack, 1, Len(stack) - 2),
                    Frame(parent.state, parent.pos, TRUE))

NoResult == [kind |-> "none", paths |-> <<>>]
Ok(paths) == [kind |-> "Ok", paths |-> paths]
Err == [kind |-> "Err", paths |-> <<>>]
Panicked == [kind |-> "panic", paths |-> <<>>]

(***************************************************************************)
(* explore_paths                                                           *)
(***************************************************************************)
\* the index checks at the head of both entry points
point_out_of_range_off_by_one(d, point) == point > Len(d.boeien)
point_out_of_range(d, point) == point >= Len(d.boeien)

explore_paths(start_point, start_time, num_steps, max_paths) ==
    /\ pc = "idle"
    /\ call' = [fn |-> "explore_paths", start_point |-> start_point,
                start_time |-> start_time, steps |-> num_steps,
                max_paths |-> max_paths]
    /\ graph' = build_regatta_graph(data)
    /\ all_paths' = <<>>
    /\ IF point_out_of_range(data, start_point)
         THEN /\ result' = Err
              /\ pc' = "returned"
              /\ stack' = <<>>
         ELSE /\ result' = NoResult
              /\ pc' = "explore_paths"
              /\ stack' = << Frame(PathExplorationState(start_point, start_time,
                                 num_steps, <<>>,
                                 ZeroVec(Len(data.starts) + Len(data.rakken)), 0),
                               1, FALSE) >>
    /\ UNCHANGED data

\* remaining_steps == 0: save the path and return
PathsSave ==
    /\ pc = "explore_paths" /\ stack # <<>>
    /\ Top.state.remaining_steps = 0
    /\ all_paths' = Append(all_paths, Path(Top.state.current_steps,
                                           Top.state.total_distance,
                                           Top.state.current_time))
    /\ stack' = ReturnPaths
    /\ UNCHANGED <<data, graph, pc, call, result>>

\* usage limit reached: continue with the next edge
PathsSkip ==
    /\ pc = "explore_paths" /\ stack # <<>>
    /\ Top.state.remaining_steps # 0
    /\ Top.pos <= Len(TopEdges)
    /\ usage_exhausted(data, Top.state, TopEdge.weight)
    /\ stack' = Append(Callers, Frame(Top.state, Top.pos + 1, FALSE))
    /\ UNCHANGED <<data, graph, pc, call, all_paths, result>>

PathsPanic_skips_edge ==
    /\ pc = "explore_paths" /\ stack # <<>>
    /\ Top.state.remaining_steps # 0
    /\ Top.pos <= Len(TopEdges)
    /\ ~usage_exhausted(data, Top.state, TopEdge.weight)
    /\ estimate_panics(data, Top.state.current_point, TopEdge.target)
    /\ stack' = Append(Callers, Frame(Top.state, Top.pos + 1, FALSE))
    /\ UNCHANGED <<data, graph, pc, call, all_paths, result>>

\* the estimator unwraps a missing coordinate
PathsPanic ==
    /\ pc = "explore_paths" /\ stack # <<>>
    /\ Top.state.remaining_steps # 0
    /\ Top.pos <= Len(TopEdges)
    /\ ~usage_exhausted(data, Top.state, TopEdge.weight)
    /\ estimate_panics(data, Top.state.current_point, TopEdge.target)
    /\ pc' = "panicked"
    /\ result' = Panicked
    /\ UNCHANGED <<data, graph, call, stack, all_paths>>

\* variant: the callee gets the caller's budget, not one step less
PathsRecurse_keeps_budget ==
    /\ pc = "explore_paths" /\ stack # <<>>
    /\ Top.state.remaining_steps # 0
    /\ Top.pos <= Len(TopEdges)
    /\ ~usage_exhausted(data, Top.state, TopEdge.weight)
    /\ ~estimate_panics(data, Top.state.current_point, TopEdge.target)
    /\ LET state == Top.state
           e     == TopEdge
           step  == make_step(data, state, e)
           new_state == PathExplorationState(e.target, step.end_time,
                            state.remaining_steps,
                            Append(state.current_steps, step),
                            bump(state.edges_used, edge_index(data, e.weight)),
                            state.total_distance + e.weight.distance)
       IN  stack' = Append(stack, Frame(new_state, 1, FALSE))
    /\ UNCHANGED <<data, graph, pc, call, all_paths, result>>

\* take the edge: build the step and call explore_paths_recursive
PathsRecurse ==
    /\ pc = "explore_paths" /\ stack # <<>>
    /\ Top.state.remaining_steps # 0
    /\ Top.pos <= Len(TopEdges)
    /\ ~usage_exhausted(data, Top.state, TopEdge.weight)
    /\ ~estimate_panics(data, Top.state.current_point, TopEdge.target)
    /\ LET state == Top.state
           e     == TopEdge
           step  == make_step(data, state, e)
           new_state == PathExplorationState(e.target, step.end_time,
                            state.remaining_steps - 1,
                            Append(state.current_steps, step),
                            bump(state.edges_used, edge_index(data, e.weight)),
                            state.total_distance + e.weight.distance)
       IN  stack' = Append(stack, Frame(new_state, 1, FALSE))
    /\ UNCHANGED <<data, graph, pc, call, all_paths, result>>

\* the edge loop is finished: Ok(())
PathsLoopDone ==
    /\ pc = "explore_paths" /\ stack # <<>>
    /\ Top.state.remaining_steps # 0
    /\ Top.pos > Len(TopEdges)
    /\ stack' = ReturnPaths
    /\ UNCHANGED <<data, graph, pc, call, all_paths, result>>

\* Ok(all_paths)
PathsReturn ==
    /\ pc = "explore_paths" /\ stack = <<>>
    /\ result' = Ok(all_paths)
    /\ pc' = "returned"
    /\ UNCHANGED <<data, graph, call, stack, all_paths>>

(***************************************************************************)
(* explore_target_paths                                                    *)
(***************************************************************************)
explore_target_paths(start_point, target_point, start_time, max_steps, max_paths) ==
    /\ pc = "idle"
    /\ call' = [fn |-> "explore_target_paths", start_point |-> start_point,
                target_point |-> target_point, start_time |-> start_time,
                steps |-> max_steps, max_paths |-> max_paths]
    /\ graph' = build_regatta_graph(data)
    /\ all_paths' = <<>>
    /\ IF point_out_of_range(data, start_point)
          \/ point_out_of_range(data, target_point)
         THEN /\ result' = Err
              /\ pc' = "returned"
              /\ stack' = <<>>
         ELSE /\ result' = NoResult
              /\ pc' = "explore_target_paths"
              /\ stack' = << Frame(TargetPathExplorationState(start_point,
                                 target_point, start_time, max_steps, <<>>,
                                 ZeroVec(Len(data.starts) + Len(data.rakken)),
                                 ZeroVec(Len(data.rakken)), 0),
                               1, FALSE) >>
    /\ UNCHANGED data

TargetRunning == pc = "explore_target_paths" /\ stack # <<>> /\ ~Top.returned

\* current_point == target_point: save the path and return
TargetSave ==
    /\ TargetRunning
    /\ Top.state.current_point = Top.state.target_point
    /\ all_paths' = Append(all_paths, Path(Top.state.current_steps,
                                           Top.state.total_distance,
                                           Top.state.current_time))
    /\ stack' = ReturnTarget
    /\ UNCHANGED <<data, graph, pc, call, result>>

\* variant: a branch that ran out of steps saves its path too
TargetExhausted_saves_path ==
    /\ TargetRunning
    /\ Top.state.current_point # Top.state.target_point
    /\ Top.state.remaining_steps = 0
    /\ all_paths' = Append(all_paths, Path(Top.state.current_steps,
                                           Top.state.total_distance,
                                           Top.state.current_time))
    /\ stack' = ReturnTarget
    /\ UNCHANGED <<data, graph, pc, call, result>>

\* no steps remaining and the target not reached: return without a path
TargetExhausted ==
    /\ TargetRunning
    /\ Top.state.current_point # Top.state.target_point
    /\ Top.state.remaining_steps = 0
    /\ stack' = ReturnTarget
    /\ UNCHANGED <<data, graph, pc, call, all_paths, result>>

TargetInLoop ==
    /\ TargetRunning
    /\ Top.state.current_point # Top.state.target_point
    /\ Top.state.remaining_steps # 0
    /\ Top.pos <= Len(TopEdges)

\* usage limit reached: continue
TargetSkipUsage ==
    /\ TargetInLoop
    /\ usage_exhausted(data, Top.state, TopEdge.weight)
    /\ stack' = Append(Callers, Frame(Top.state, Top.pos + 1, FALSE))
    /\ UNCHANGED <<data, graph, pc, call, all_paths, result>>

\* the leg was sailed twice already: continue
TargetSkipRak ==
    /\ TargetInLoop
    /\ ~usage_exhausted(data, Top.state, TopEdge.weight)
    /\ rak_exhausted(Top.state, TopEdge.weight)
    /\ stack' = Append(Callers, Frame(Top.state, Top.pos + 1, FALSE))
    /\ UNCHANGED <<data, graph, pc, call, all_paths, result>>

TargetAdmissible ==
    /\ TargetInLoop
    /\ ~usage_exhausted(data, Top.state, TopEdge.weight)
    /\ ~rak_exhausted(Top.state, TopEdge.weight)

TargetPanic ==
    /\ TargetAdmissible
    /\ estimate_panics(data, Top.state.current_point, TopEdge.target)
    /\ pc' = "panicked"
    /\ result' = Panicked
    /\ UNCHANGED <<data, graph, call, stack, all_paths>>

TargetRecurse ==
    /\ TargetAdmissible
    /\ ~estimate_panics(data, Top.state.current_point, TopEdge.target)
    /\ LET state == Top.state
           e     == TopEdge
           step  == make_step(data, state, e)
           new_state == TargetPathExplorationState(e.target, state.target_point,
                            step.end_time, state.remaining_steps - 1,
                            Append(state.current_steps, step),
                            bump(state.edges_used, edge_index(data, e.weight)),
                            IF e.weight.is_start THEN state.rak_usage
                            ELSE bump(state.rak_usage, e.weight.index),
                            state.total_distance + e.weight.distance)
       IN  stack' = Append(stack, Frame(new_state, 1, FALSE))
    /\ UNCHANGED <<data, graph, pc, call, all_paths, result>>

\* after the recursive call: exit early once max_paths is reached
TargetCapReturn ==
    /\ pc = "explore_target_paths" /\ stack # <<>> /\ Top.returned
    /\ reached_max_paths(Len(all_paths), call.max_paths)
    /\ stack' = ReturnTarget
    /\ UNCHANGED <<data, graph, pc, call, all_paths, result>>

\* after the recursive call: next edge
TargetContinue ==
    /\ pc = "explore_target_paths" /\ stack # <<>> /\ Top.returned
    /\ ~reached_max_paths(Len(all_paths), call.max_paths)
    /\ stack' = Append(Callers, Frame(Top.state, Top.pos + 1, FALSE))
    /\ UNCHANGED <<data, graph, pc, call, all_paths, result>>

TargetLoopDone ==
    /\ TargetRunning
    /\ Top.state.current_point # Top.state.target_point
    /\ Top.state.remaining_steps # 0
    /\ Top.pos > Len(TopEdges)
    /\ stack' = ReturnTarget
    /\ UNCHANGED <<data, graph, pc, call, all_paths, result>>

\* Ok(all_paths)
TargetReturn ==
    /\ pc = "explore_target_paths" /\ stack = <<>>
    /\ result' = Ok(all_paths)
    /\ pc' = "returned"
    /\ UNCHANGED <<data, graph, call, stack, all_paths>>

(***************************************************************************)
(* Datasets: three buoys A(0,0), B(0,1), C(1,1), the legs A-B and B-C, an  *)
(* optional start line A->B, a wind schedule and a polar table.            *)
(***************************************************************************)
StartMaxNumbers == {0, 1}
RakMaxNumbers == {0, 1, 2, 3, 256}

BoeienResolved ==
    << Boei("A", Some(0), Some(0)), Boei("B", Some(0), Some(1)),
       Boei("C", Some(1), Some(1)) >>
BoeienUnresolved ==
    << Boei("A", Some(0), Some(0)), Boei("B", Some(0), Some(1)),
       Boei("C", None, Some(1)) >>

WindSample(time, wind_speed, wind_angle) ==
    [time |-> time, wind_speed |-> wind_speed, wind_angle |-> wind_angle]
\* constant 10 kt from 90 degrees
ConstantWind == [h \in 1..4 |-> WindSample(h - 1, 10, 90)]
\* 5 kt for every angle and wind speed
ConstantPolar ==
    [wind_speeds |-> <<10>>, wind_angles |-> <<0, 90, 180>>,
     boat_speeds |-> << <<5>>, <<5>>, <<5>> >>]

\* a polar table with two wind speeds and four angles: its cells are all
\* different, so a cell tells the pair of indices it was read at
VaryingPolar ==
    [wind_speeds |-> <<6, 10>>, wind_angles |-> <<0, 60, 90, 180>>,
     boat_speeds |-> << <<0, 1>>, <<2, 3>>, <<4, 5>>, <<6, 7>> >>]
\* a wind that changes speed and direction from hour to hour
VaryingWind ==
    << WindSample(0, 6, 90), WindSample(1, 10, 0), WindSample(2, 10, 270),
       WindSample(3, 6, 180) >>

Dataset(boeien, starts, rakken, wind_data, polar_data) ==
    [boeien |-> boeien, starts |-> starts, rakken |-> rakken,
     wind_data |-> wind_data, polar_data |-> polar_data]

\* a start row and a leg row name a buoy "X" that is not in the buoy table
DatasetUnknownBoei ==
    Dataset(BoeienResolved, << Start("A", "X", 2, 1) >>,
            << Rak("X", "B", 1, 2), Rak("A", "B", 1, 2), Rak("B", "C", 1, 1) >>,
            ConstantWind, ConstantPolar)

\* the course sailed in changing weather
DatasetVaryingWeather ==
    Dataset(BoeienResolved, << Start("A", "B", 2, 1) >>,
            << Rak("A", "B", 1, 3), Rak("B", "C", 1, 2) >>,
            VaryingWind, VaryingPolar)

StartTables == {<<>>} \cup {<< Start("A", "B", 2, s) >> : s \in StartMaxNumbers}
RakTables ==
    {<< Rak("A", "B", 1, m1), Rak("B", "C", 1, m2) >> :
        m1 \in RakMaxNumbers, m2 \in RakMaxNumbers}

Datasets ==
    {Dataset(BoeienResolved, st, rk, ConstantWind, ConstantPolar) :
        st \in StartTables, rk \in RakTables}
    \cup {Dataset(BoeienUnresolved, <<>>, << Rak("A", "B", 1, 2), Rak("B", "C", 1, 2) >>,
                  ConstantWind, ConstantPolar)}
    \cup {DatasetUnknownBoei, DatasetVaryingWeather}

\* arguments of the calls
StartTimes == {0, 45}
PointArgs == 0..3
StepArgs == 0..MaxSteps
MaxPathsArgs == {None} \cup {Some(k) : k \in 0..MaxPathsArg}

(***************************************************************************)
(* Specification                                                           *)
(***************************************************************************)
Init ==
    /\ data \in Datasets
    /\ graph = build_regatta_graph(data)
    /\ pc = "idle"
    /\ call = [fn |-> "none"]
    /\ stack = <<>>
    /\ all_paths = <<>>
    /\ result = NoResult

CallPaths ==
    \E start_point \in PointArgs, start_time \in StartTimes,
       num_steps \in StepArgs, max_paths \in MaxPathsArgs :
        explore_paths(start_point, start_time, num_steps, max_paths)

CallTarget ==
    \E start_point \in PointArgs, target_point \in PointArgs,
       start_time \in StartTimes, max_steps \in StepArgs,
       max_paths \in MaxPathsArgs :
        explore_target_paths(start_point, target_point, start_time,
                             max_steps, max_paths)

\* the caller has consumed the returned value (the Vec<Path> or the error is
\* its own); the dataset stays loaded for the next call
DropResult ==
    /\ pc = "returned"
    /\ pc' = "idle"
    /\ call' = [fn |-> "none"]
    /\ all_paths' = <<>>
    /\ result' = NoResult
    /\ UNCHANGED <<data, graph, stack>>

Next ==
    \/ CallPaths
    \/ PathsSave
    \/ PathsSkip
    \/ PathsPanic
    \/ PathsRecurse
    \/ PathsLoopDone
    \/ PathsReturn
    \/ CallTarget
    \/ TargetSave
    \/ TargetExhausted
    \/ TargetSkipUsage
    \/ TargetSkipRak
    \/ TargetPanic
    \/ TargetRecurse
    \/ TargetCapReturn
    \/ TargetContinue
    \/ TargetLoopDone
    \/ TargetReturn
    \/ DropResult

Spec == Init /\ [][Next]_vars

(***************************************************************************)
(* Reference definitions for the properties: walks of the graph, written   *)
(* as sets and independent of the search order.                            *)
(***************************************************************************)
\* the edges of the graph the call has built from the dataset
G == graph.edges
EdgeIds == 1..Len(G)

\* the node a walk (sequence of edge ids) from `start` ends at
WalkEnd(start, w) == IF w = <<>> THEN start ELSE G[w[Len(w)]].target

\* all sequences of n chained directed edges leaving `start`
RECURSIVE Chains(_, _)
Chains(start, n) ==
    IF n = 0 THEN {<<>>}
    ELSE {Append(x[1], x[2]) :
            x \in {y \in Chains(start, n - 1) \X EdgeIds :
                      G[y[2]].source = WalkEnd(start, y[1])}}

\* the start or leg row an edge comes from
EntityOf(e) == <<G[e].weight.is_start, G[e].weight.index>>
Entities == {EntityOf(e) : e \in EdgeIds}
ConfiguredMax(ent) ==
    IF ent[1] THEN At(data.starts, ent[2]).max_number
    ELSE At(data.rakken, ent[2]).max_number
Uses(w, ent) == Cardinality({i \in DOMAIN w : EntityOf(w[i]) = ent})

WalkProj(w) ==
    [i \in DOMAIN w |-> <<G[w[i]].source, G[w[i]].target, G[w[i]].weight.distance>>]
PathProj(p) ==
    [i \in DOMAIN p.steps |-> <<p.steps[i].from, p.steps[i].to, p.steps[i].distance>>]

\* the walks whose edges are, one by one, the steps of a path from `start`
RECURSIVE StepWalks(_, _)
StepWalks(start, steps) ==
    IF steps = <<>> THEN {<<>>}
    ELSE LET last == steps[Len(steps)]
             init == SubSeq(steps, 1, Len(steps) - 1)
         IN  {Append(x[1], x[2]) :
                x \in {y \in StepWalks(start, init) \X EdgeIds :
                          /\ G[y[2]].source = WalkEnd(start, y[1])
                          /\ G[y[2]].source = last.from
                          /\ G[y[2]].target = last.to
                          /\ G[y[2]].weight.distance = last.distance}}

\* the list of paths holds each walk of W exactly once and nothing else
ExactlyTheWalks(paths, W) ==
    \A pr \in {PathProj(paths[i]) : i \in DOMAIN paths} \cup {WalkProj(w) : w \in W} :
        Cardinality({i \in DOMAIN paths : PathProj(paths[i]) = pr})
            = Cardinality({w \in W : WalkProj(w) = pr})

ReturnedOk(fn) == pc = "returned" /\ call.fn = fn /\ result.kind = "Ok"

\* walks that respect every configured max_number
WithinConfigured(w) == \A ent \in Entities : Uses(w, ent) <= ConfiguredMax(ent)

(***************************************************************************)
(* C1: without maxPaths, explore_paths returns exactly the walks of        *)
(* numSteps edges from start that use every start/leg entity at most its   *)
(* configured max_number times, each exactly once, all of numSteps steps.  *)
(***************************************************************************)
C1_ExactlyConfiguredWalks ==
    (ReturnedOk("explore_paths") /\ call.max_paths = None) =>
        /\ ExactlyTheWalks(result.paths,
               {w \in Chains(call.start_point, call.steps) : WithinConfigured(w)})
        /\ \A i \in DOMAIN result.paths : Len(result.paths[i].steps) = call.steps

\* the limit the explorer applies: max_number narrowed to 8 bits
NarrowedMax(ent) == AsU8(ConfiguredMax(ent))
WithinNarrowed(w) == \A ent \in Entities : Uses(w, ent) <= NarrowedMax(ent)

\* what explore_paths does return: the walks within the narrowed limits
ExplorePathsReturnsNarrowedWalks ==
    (ReturnedOk("explore_paths") /\ call.max_paths = None) =>
        /\ ExactlyTheWalks(result.paths,
               {w \in Chains(call.start_point, call.steps) : WithinNarrowed(w)})
        /\ \A i \in DOMAIN result.paths : Len(result.paths[i].steps) = call.steps

(***************************************************************************)
(* C2: in the scenario A(0,0), B(0,1), C(1,1), legs A-B and B-C of         *)
(* distance 1 and max 2, no start edges, constant 5 knots,                 *)
(* explore_paths(A, 0, 2) returns exactly one path, A->B->C, with          *)
(* total_distance 2 and end_time 0.4 h (24/60).                            *)
(***************************************************************************)
ScenarioData ==
    Dataset(BoeienResolved, <<>>, << Rak("A", "B", 1, 2), Rak("B", "C", 1, 2) >>,
            ConstantWind, ConstantPolar)
ScenarioCall ==
    /\ data = ScenarioData
    /\ ReturnedOk("explore_paths")
    /\ call.start_point = 0 /\ call.start_time = 0 /\ call.steps = 2
    /\ call.max_paths = None
StepAB == [from |-> 0, to |-> 1, distance |-> 1, speed |-> 5,
           start_time |-> 0, end_time |-> 12]
StepBC == [from |-> 1, to |-> 2, distance |-> 1, speed |-> 5,
           start_time |-> 12, end_time |-> 24]
StepBA == [from |-> 1, to |-> 0, distance |-> 1, speed |-> 5,
           start_time |-> 12, end_time |-> 24]
PathABC == [steps |-> << StepAB, StepBC >>, total_distance |-> 2, end_time |-> 24]
PathABA == [steps |-> << StepAB, StepBA >>, total_distance |-> 2, end_time |-> 24]

C2_ScenarioOnePath == ScenarioCall => result.paths = << PathABC >>

\* C2 as amended: exactly two paths are returned, A->B->C and A->B->A (the
\* leg A-B may be sailed twice), both with total_distance 2 and end_time 0.4 h
C2_ScenarioTwoPaths ==
    ScenarioCall =>
        /\ Len(result.paths) = 2
        /\ {result.paths[i] : i \in DOMAIN result.paths} = {PathABC, PathABA}
C2_Witness == ScenarioCall /\ Len(result.paths) = 2

(***************************************************************************)
(* C3: for every valid start and every startTime, explore_paths with       *)
(* numSteps = 0 returns exactly one path, which has zero steps, end_time   *)
(* = startTime and total_distance = 0 (and the call cannot fail).          *)
(***************************************************************************)
ZeroStepCall ==
    /\ call.fn = "explore_paths"
    /\ call.steps = 0
    /\ call.start_point < Len(data.boeien)
C3_ZeroSteps ==
    ZeroStepCall =>
        /\ pc # "panicked"
        /\ result.kind # "Err"
        /\ pc = "returned" =>
              /\ result.kind = "Ok"
              /\ result.paths = << [steps |-> <<>>, total_distance |-> 0,
                                    end_time |-> call.start_time] >>
C3_Witness ==
    /\ ZeroStepCall /\ pc = "returned" /\ call.start_time # 0
    /\ Len(result.paths) = 1

(***************************************************************************)
(* Reference definitions for the target-seeking mode                       *)
(***************************************************************************)
\* walks of n edges from start that are at the target after their last edge
\* and at no earlier point
FirstReach(start, target, n) ==
    {w \in Chains(start, n) :
        /\ WalkEnd(start, w) = target
        /\ \A i \in 1..(n - 1) : G[w[i]].target # target}

Min(a, b) == IF a <= b THEN a ELSE b
ConfiguredTargetLimit(ent) ==
    IF ent[1] THEN ConfiguredMax(ent) ELSE Min(ConfiguredMax(ent), 2)
NarrowedTargetLimit(ent) ==
    IF ent[1] THEN NarrowedMax(ent) ELSE Min(NarrowedMax(ent), 2)

LastStep(p) == p.steps[Len(p.steps)]
EndsAtTarget(p) == p.steps # <<>> /\ LastStep(p).to = call.target_point

(***************************************************************************)
(* C4: for any start/target pair such that the target is connected to the  *)
(* start within maxSteps edges of the graph, explore_target_paths returns  *)
(* at least one path whose final step's `to` equals the target.            *)
(***************************************************************************)
ConnectedWithin(start, target, n) ==
    \E k \in 1..n : \E w \in Chains(start, k) : WalkEnd(start, w) = target

UsablyConnectedWithin(start, target, n) ==
    \E k \in 1..n : \E w \in Chains(start, k) :
        /\ WalkEnd(start, w) = target
        /\ \A i \in DOMAIN w : NarrowedMax(EntityOf(w[i])) >= 1

TargetWalks(Limit(_)) ==
    UNION {{w \in FirstReach(call.start_point, call.target_point, n) :
                \A ent \in Entities : Uses(w, ent) <= Limit(ent)} :
           n \in 1..call.steps}

UncappedTargetCall ==
    /\ ReturnedOk("explore_target_paths")
    /\ call.max_paths = None
    /\ call.start_point # call.target_point

C5_ExactlyConfiguredTargetWalks ==
    UncappedTargetCall =>
        ExactlyTheWalks(result.paths, TargetWalks(ConfiguredTargetLimit))

\* what explore_target_paths does return: the walks within the narrowed limits
ExploreTargetReturnsNarrowedWalks ==
    UncappedTargetCall =>
        ExactlyTheWalks(result.paths, TargetWalks(NarrowedTargetLimit))

(***************************************************************************)
(* C6: in both modes, in every search frame and in every returned path,    *)
(* the number of steps that traverse a start or leg entity never exceeds   *)
(* that entity's configured max_number; an entity with max_number = 0 is   *)
(* never traversed.                                                        *)
(***************************************************************************)
\* the configured max_number of slot i (0-based) of the combined usage array
SlotMax(i) ==
    IF i < Len(data.starts) THEN At(data.starts, i).max_number
    ELSE At(data.rakken, i - Len(data.starts)).max_number

\* the steps are those of a walk from the call's start that stays within
\* every configured max_number
StepsWithinConfigured(p) ==
    \E w \in StepWalks(call.start_point, p.steps) : WithinConfigured(w)

C6_UsageWithinMax ==
    /\ \A f \in DOMAIN stack :
          /\ \A i \in 0..(Len(stack[f].state.edges_used) - 1) :
                At(stack[f].state.edges_used, i) <= SlotMax(i)
          /\ StepsWithinConfigured([steps |-> stack[f].state.current_steps])
    /\ \A i \in DOMAIN all_paths : StepsWithinConfigured(all_paths[i])
    /\ \A i \in DOMAIN result.paths : StepsWithinConfigured(result.paths[i])

\* a returned path that sails a leg as often as its max_number allows, in a
\* dataset that also has an entity of max_number 0
C6_Witness ==
    /\ pc = "returned" /\ result.kind = "Ok"
    /\ \E ent \in Entities : ConfiguredMax(ent) = 0
    /\ \E i \in DOMAIN result.paths :
          \E w \in StepWalks(call.start_point, result.paths[i].steps) :
              \E ent \in Entities :
                  Uses(w, ent) = ConfiguredMax(ent) /\ ConfiguredMax(ent) >= 2

(***************************************************************************)
(* C7: in every path returned by explore_target_paths no leg entity is     *)
(* traversed more than twice, both directions counted together, whatever   *)
(* the leg's configured max_number.                                        *)
(***************************************************************************)
LegEntities == {ent \in Entities : ~ent[1]}
LegsAtMostTwice(p) ==
    \E w \in StepWalks(call.start_point, p.steps) :
        \A ent \in LegEntities : Uses(w, ent) <= 2

C7_LegAtMostTwice ==
    call.fn = "explore_target_paths" =>
        /\ \A i \in DOMAIN all_paths : LegsAtMostTwice(all_paths[i])
        /\ \A i \in DOMAIN result.paths : LegsAtMostTwice(result.paths[i])

\* a returned path sails twice a leg whose max_number is above 2
C7_Witness ==
    /\ ReturnedOk("explore_target_paths")
    /\ \E i \in DOMAIN result.paths :
          \E w \in StepWalks(call.start_point, result.paths[i].steps) :
              \E ent \in LegEntities : Uses(w, ent) = 2 /\ NarrowedMax(ent) > 2

(***************************************************************************)
(* C8: every path returned by explore_target_paths with start # target has *)
(* at least one and at most maxSteps steps, its last step's `to` is the    *)
(* target and no earlier step's `to` is the target; a branch that exhausts *)
(* its budget without reaching the target contributes no path.             *)
(***************************************************************************)
TargetPathShape(p) ==
    /\ Len(p.steps) >= 1
    /\ Len(p.steps) <= call.steps
    /\ LastStep(p).to = call.target_point
    /\ \A k \in 1..(Len(p.steps) - 1) : p.steps[k].to # call.target_point

C8_TargetPathShape ==
    (call.fn = "explore_target_paths" /\ call.start_point # call.target_point) =>
        /\ \A i \in DOMAIN all_paths : TargetPathShape(all_paths[i])
        /\ \A i \in DOMAIN result.paths : TargetPathShape(result.paths[i])

\* a call that returned a path of maxSteps steps although other branches
\* ran out of budget
C8_Witness ==
    /\ ReturnedOk("explore_target_paths")
    /\ call.start_point # call.target_point
    /\ \E i \in DOMAIN result.paths : Len(result.paths[i].steps) = call.steps
    /\ \E i \in DOMAIN result.paths : Len(result.paths[i].steps) < call.steps

(***************************************************************************)
(* C9: explore_paths called with maxPaths = k returns at most k paths.     *)
(***************************************************************************)
C9_PathsAtMostK ==
    (ReturnedOk("explore_paths") /\ IsSome(call.max_paths)) =>
        Len(result.paths) <= Unwrap(call.max_paths)

(***************************************************************************)
(* C10: explore_target_paths called with maxPaths = k returns at most k    *)
(* paths, for every k that can be passed, k = 0 included.                  *)
(***************************************************************************)
C10_TargetAtMostK ==
    (ReturnedOk("explore_target_paths") /\ IsSome(call.max_paths)) =>
        Len(result.paths) <= Unwrap(call.max_paths)

\* what explore_target_paths does guarantee: at most k paths for k >= 1
ExploreTargetAtMostPositiveK ==
    (/\ ReturnedOk("explore_target_paths")
     /\ IsSome(call.max_paths) /\ call.max_paths # Some(0)) =>
        Len(result.paths) <= Unwrap(call.max_paths)

(***************************************************************************)
(* Calls with an index outside the buoy table                              *)
(***************************************************************************)
ValidPoints == 0..(Len(data.boeien) - 1)
OutOfRangeCall ==
    \/ call.fn = "explore_paths" /\ call.start_point \notin ValidPoints
    \/ /\ call.fn = "explore_target_paths"
       /\ \/ call.start_point \notin ValidPoints
          \/ call.target_point \notin ValidPoints

\* C11: a call of explore_paths whose start index, or of explore_target_paths
\* whose start or target index, is not below the number of buoys returns an
\* error and no paths, and no frame of the exploration ever exists for it: no
\* edge is explored and no estimate is computed.
C11_OutOfRangeIsError ==
    OutOfRangeCall =>
        /\ pc = "returned"
        /\ result = Err
        /\ stack = <<>>
        /\ all_paths = <<>>

C11_Witness ==
    /\ pc = "returned"
    /\ call.fn = "explore_target_paths"
    /\ call.start_point = 0
    /\ call.target_point = Len(data.boeien)
    /\ call.steps > 0
    /\ result = Err

(***************************************************************************)
(* C12: explore_target_paths called with the target equal to the start     *)
(* fails: the call returns no successful result.                           *)
(***************************************************************************)
C12_TargetEqualsStartFails ==
    (/\ call.fn = "explore_target_paths"
     /\ call.start_point = call.target_point
     /\ pc = "returned") =>
        result.kind # "Ok"

\* what explore_target_paths does return for an in-range start that is its
\* own target: success with the single zero-step path
ExploreTargetAtTargetReturnsEmptyPath ==
    (/\ call.fn = "explore_target_paths"
     /\ call.start_point = call.target_point
     /\ call.start_point \in ValidPoints
     /\ pc = "returned") =>
        result = Ok(<< [steps |-> <<>>, total_distance |-> 0,
                        end_time |-> call.start_time] >>)

(***************************************************************************)
(* Edges to or from a buoy without coordinates                             *)
(***************************************************************************)
Resolved(point) ==
    LET b == At(data.boeien, point) IN b.lat # None /\ b.long # None

\* the edge loop of the innermost call stands at an edge that passes the
\* usage checks of its mode
AtAdmissibleEdge ==
    /\ pc \in {"explore_paths", "explore_target_paths"}
    /\ stack # <<>>
    /\ Top.state.remaining_steps > 0
    /\ Top.pos <= Len(TopEdges)
    /\ LET w    == TopEdge.weight
           slot == IF w.is_start THEN w.index ELSE Len(data.starts) + w.index
       IN  /\ At(Top.state.edges_used, slot) < SlotMax(slot)
           /\ pc = "explore_target_paths" =>
                 /\ ~Top.returned
                 /\ Top.state.current_point # Top.state.target_point
                 /\ w.is_start \/ At(Top.state.rak_usage, w.index) < 2

StepsResolved(steps) ==
    \A i \in DOMAIN steps : Resolved(steps[i].from) /\ Resolved(steps[i].to)

\* C13: in either mode, when the edge loop stands at an admissible edge whose
\* source or destination buoy lacks a latitude or longitude, the next thing
\* that happens is the failure of the whole exploration: the edge is not
\* skipped, the failed call returns no path list, and no step to or from such
\* a buoy is in any path, kept or returned.
C13_UnresolvedEdgeFails ==
    /\ [][(/\ AtAdmissibleEdge
           /\ ~(Resolved(TopEdge.source) /\ Resolved(TopEdge.target)))
          => (pc' = "panicked" /\ result'.kind = "panic")]_vars
    /\ [](/\ pc = "panicked" => (result.kind = "panic" /\ result.paths = <<>>)
          /\ result.kind = "panic" => pc = "panicked"
          /\ \A f \in DOMAIN stack : StepsResolved(stack[f].state.current_steps)
          /\ \A i \in DOMAIN all_paths : StepsResolved(all_paths[i].steps)
          /\ \A i \in DOMAIN result.paths : StepsResolved(result.paths[i].steps))

\* explore_paths failed at the second edge of a walk: the first step was
\* sailed between resolved buoys, the next edge leads to an unresolved one
C13_Witness ==
    /\ pc = "panicked"
    /\ call.fn = "explore_paths"
    /\ Len(Top.state.current_steps) = 1
    /\ Resolved(TopEdge.source) /\ ~Resolved(TopEdge.target)

(***************************************************************************)
(* Traversals of a leg in its two directions                               *)
(***************************************************************************)
BoeiAt(name) == CHOOSE i \in ValidPoints : At(data.boeien, i).name = name
LegRows == 0..(Len(data.rakken) - 1)
LegKnown(k) ==
    /\ \E i \in ValidPoints : At(data.boeien, i).name = At(data.rakken, k).from
    /\ \E i \in ValidPoints : At(data.boeien, i).name = At(data.rakken, k).to

\* the steps that sail leg k from its `from` buoy to its `to` buoy
ForwardTraversals(steps, k) ==
    LET r == At(data.rakken, k)
    IN  {i \in DOMAIN steps : /\ steps[i].from = BoeiAt(r.from)
                              /\ steps[i].to = BoeiAt(r.to)
                              /\ steps[i].distance = r.distance}
\* the steps that sail leg k from its `to` buoy to its `from` buoy
BackwardTraversals(steps, k) ==
    LET r == At(data.rakken, k)
    IN  {i \in DOMAIN steps : /\ steps[i].from = BoeiAt(r.to)
                              /\ steps[i].to = BoeiAt(r.from)
                              /\ steps[i].distance = r.distance}
Traversals(steps, k) ==
    Cardinality(ForwardTraversals(steps, k))
        + Cardinality(BackwardTraversals(steps, k))

LegsSharedWithin(steps) ==
    \A k \in LegRows :
        LegKnown(k) => Traversals(steps, k) <= At(data.rakken, k).max_number

\* C14: the two directed edges of a leg share one usage counter: in every
\* activation the counter of leg k is the number of steps sailed so far over
\* leg k in either direction, and no path, in progress, kept or returned,
\* sails a leg of max_number m more than m times in total over both
\* directions.
C14_LegCounterShared ==
    /\ \A f \in DOMAIN stack :
          LET st == stack[f].state
          IN  /\ \A k \in LegRows :
                    LegKnown(k) =>
                        At(st.edges_used, Len(data.starts) + k)
                            = Traversals(st.current_steps, k)
              /\ LegsSharedWithin(st.current_steps)
    /\ \A i \in DOMAIN all_paths : LegsSharedWithin(all_paths[i].steps)
    /\ \A i \in DOMAIN result.paths : LegsSharedWithin(result.paths[i].steps)

\* a leg of max_number 1 was sailed forwards, and the edge loop now stands at
\* its reverse edge
C14_Witness ==
    /\ pc \in {"explore_paths", "explore_target_paths"}
    /\ stack # <<>>
    /\ Top.state.remaining_steps > 0
    /\ Top.pos <= Len(TopEdges)
    /\ ~TopEdge.weight.is_start
    /\ LET k == TopEdge.weight.index
       IN  /\ At(data.rakken, k).max_number = 1
           /\ Cardinality(ForwardTraversals(Top.state.current_steps, k)) = 1
           /\ TopEdge.target = BoeiAt(At(data.rakken, k).from)

(***************************************************************************)
(* The graph of a dataset                                                  *)
(***************************************************************************)
StartRows == 0..(Len(data.starts) - 1)
EdgesOfStart(k) ==
    {e \in EdgeIds : G[e].weight.is_start /\ G[e].weight.index = k}
EdgesOfLeg(k) ==
    {e \in EdgeIds : ~G[e].weight.is_start /\ G[e].weight.index = k}

\* C15: the graph has one node per buoy, exactly one directed edge per start
\* row and two opposite directed edges per leg row, each with the row's
\* distance; no start or leg row is left out, whatever buoys it names.
C15_GraphHasEveryRow ==
    /\ graph.node_count = Len(data.boeien)
    /\ Len(graph.edges) = Len(data.starts) + 2 * Len(data.rakken)
    /\ \A k \in StartRows :
          /\ Cardinality(EdgesOfStart(k)) = 1
          /\ \A e \in EdgesOfStart(k) :
                G[e].weight.distance = At(data.starts, k).distance
    /\ \A k \in LegRows :
          /\ Cardinality(EdgesOfLeg(k)) = 2
          /\ \A e \in EdgesOfLeg(k) :
                /\ G[e].weight.distance = At(data.rakken, k).distance
                /\ \E o \in EdgesOfLeg(k) :
                      G[o].source = G[e].target /\ G[o].target = G[e].source

StartKnown(k) ==
    /\ \E i \in ValidPoints : At(data.boeien, i).name = At(data.starts, k).from
    /\ \E i \in ValidPoints : At(data.boeien, i).name = At(data.starts, k).to

\* what build_regatta_graph does build: the edges of the rows whose two buoy
\* names are in the buoy table, and no edge for any other row
BuildGraphCoversKnownRows ==
    /\ graph.node_count = Len(data.boeien)
    /\ \A k \in StartRows :
          Cardinality(EdgesOfStart(k)) = (IF StartKnown(k) THEN 1 ELSE 0)
    /\ \A k \in LegRows :
          Cardinality(EdgesOfLeg(k)) = (IF LegKnown(k) THEN 2 ELSE 0)
    /\ \A e \in EdgeIds :
          \/ /\ G[e].weight.is_start
             /\ G[e].weight.index \in StartRows
             /\ G[e].weight.distance = At(data.starts, G[e].weight.index).distance
          \/ /\ ~G[e].weight.is_start
             /\ G[e].weight.index \in LegRows
             /\ G[e].weight.distance = At(data.rakken, G[e].weight.index).distance

(***************************************************************************)
(* The estimator and the polar lookup called on their own                  *)
(***************************************************************************)
\* four buoys on the corners of a one-degree square: the legs between them
\* have all eight bearings that are multiples of 45 degrees
BoeienSquare ==
    << Boei("A", Some(0), Some(0)), Boei("B", Some(0), Some(1)),
       Boei("C", Some(1), Some(1)), Boei("D", Some(1), Some(0)) >>
BoeienSquareUnresolved ==
    << Boei("A", Some(0), Some(0)), Boei("B", Some(0), Some(1)),
       Boei("C", Some(1), Some(1)), Boei("D", Some(1), None) >>

\* compass directions a wind sample can hold, 360 written for north included
WindDirections == {0, 45, 90, 180, 225, 270, 315, 360}
WindTables ==
    {<< WindSample(0, 6, a0), WindSample(1, 10, a1), WindSample(2, 10, a0) >> :
        a0 \in WindDirections, a1 \in WindDirections}

\* axes that are not ascending and hold a value twice
UnsortedPolar ==
    [wind_speeds |-> <<10, 6, 10>>, wind_angles |-> <<90, 0, 180, 90>>,
     boat_speeds |-> << <<1, 2, 3>>, <<4, 5, 6>>, <<7, 8, 9>>, <<10, 11, 12>> >>]
PolarTables == {ConstantPolar, VaryingPolar, UnsortedPolar}

EstimatorDatasets ==
    {Dataset(BoeienSquare, <<>>, <<>>, w, p) : w \in WindTables, p \in PolarTables}
    \cup {Dataset(BoeienSquareUnresolved, <<>>, <<>>, ConstantWind, VaryingPolar)}

\* times in 1/60 hour: on a sample, between samples, after the last sample
EstimatorTimes == {0, 20, 30, 60, 90, 120, 150, 1500}
EstimatorPoints == 0..3
LookupAngles == {0, 29, 30, 31, 45, 60, 75, 90, 135, 180}
LookupSpeeds == {0, 6, 7, 8, 9, 10, 20}

Performance(p) == [kind |-> "Ok", paths |-> <<>>, performance |-> p]
BoatSpeed(s) == [kind |-> "Ok", paths |-> <<>>, speed |-> s]

\* estimate_leg_performance(&data, from, to, time) returning its record
CallEstimate ==
    \E from \in EstimatorPoints, to \in EstimatorPoints, time \in EstimatorTimes :
        /\ pc = "idle"
        /\ ~estimate_panics(data, from, to)
        /\ call' = [fn |-> "estimate_leg_performance", from |-> from, to |-> to,
                    time |-> time]
        /\ result' = Performance(estimate_leg_performance(data, from, to, time))
        /\ pc' = "returned"
        /\ UNCHANGED <<data, graph, stack, all_paths>>

\* estimate_leg_performance called for a buoy without coordinates
CallEstimatePanic ==
    \E from \in EstimatorPoints, to \in EstimatorPoints, time \in EstimatorTimes :
        /\ pc = "idle"
        /\ estimate_panics(data, from, to)
        /\ call' = [fn |-> "estimate_leg_performance", from |-> from, to |-> to,
                    time |-> time]
        /\ result' = Panicked
        /\ pc' = "panicked"
        /\ UNCHANGED <<data, graph, stack, all_paths>>

\* polar_data.get_boat_speed(wind_angle, wind_speed)
CallBoatSpeed ==
    \E wind_angle \in LookupAngles, wind_speed \in LookupSpeeds :
        /\ pc = "idle"
        /\ call' = [fn |-> "get_boat_speed", wind_angle |-> wind_angle,
                    wind_speed |-> wind_speed]
        /\ result' = BoatSpeed(get_boat_speed(data.polar_data, wind_angle, wind_speed))
        /\ pc' = "returned"
        /\ UNCHANGED <<data, graph, stack, all_paths>>

InitEstimator ==
    /\ data \in EstimatorDatasets
    /\ graph = build_regatta_graph(data)
    /\ pc = "idle"
    /\ call = [fn |-> "none"]
    /\ stack = <<>>
    /\ all_paths = <<>>
    /\ result = NoResult

NextEstimator ==
    \/ CallEstimate
    \/ CallEstimatePanic
    \/ CallBoatSpeed
    \/ DropResult

SpecEstimator == InitEstimator /\ [][NextEstimator]_vars

EstimateReturned == pc = "returned" /\ call.fn = "estimate_leg_performance"

Distance(x, y) == IF x >= y THEN x - y ELSE y - x

\* the lowest position of the axis among those nearest to the target
NearestFirst(axis, target) ==
    CHOOSE i \in DOMAIN axis :
        /\ \A j \in DOMAIN axis : Distance(axis[i], target) <= Distance(axis[j], target)
        /\ \A j \in 1..(i - 1) : Distance(axis[j], target) > Distance(axis[i], target)

BoatSpeedReturned == pc = "returned" /\ call.fn = "get_boat_speed"

\* C18: the polar lookup returns the stored cell [i][j], i the position of
\* the angle-axis value nearest to the requested angle and j the position of
\* the speed-axis value nearest to the requested wind speed, the lower
\* position winning a tie; a request that hits both axes exactly returns the
\* cell of those entries; the value is never one computed between cells.
C18_NearestCell ==
    BoatSpeedReturned =>
        LET polar == data.polar_data
            i == NearestFirst(polar.wind_angles, call.wind_angle)
            j == NearestFirst(polar.wind_speeds, call.wind_speed)
        IN  /\ result.speed = polar.boat_speeds[i][j]
            /\ \A a \in DOMAIN polar.wind_angles, s \in DOMAIN polar.wind_speeds :
                  (/\ polar.wind_angles[a] = call.wind_angle
                   /\ polar.wind_speeds[s] = call.wind_speed
                   /\ \A b \in 1..(a - 1) : polar.wind_angles[b] # call.wind_angle
                   /\ \A t \in 1..(s - 1) : polar.wind_speeds[t] # call.wind_speed)
                  => result.speed = polar.boat_speeds[a][s]

\* 75 degrees lies midway between the angles 60 and 90, 8 knots midway
\* between the speeds 6 and 10: the cell of 60 degrees and 6 knots is returned
C18_Witness ==
    /\ BoatSpeedReturned
    /\ data.polar_data = VaryingPolar
    /\ call.wind_angle = 75
    /\ call.wind_speed = 8
    /\ result.speed = 2

(***************************************************************************)
(* Speeds and times of the steps                                           *)
(***************************************************************************)
\* every list of steps the explorer holds: in progress, kept and returned
StepLists ==
    {stack[f].state.current_steps : f \in DOMAIN stack}
        \cup {all_paths[i].steps : i \in DOMAIN all_paths}
        \cup {result.paths[i].steps : i \in DOMAIN result.paths}

EstimatedSpeed(from, to, time) ==
    estimate_leg_performance(data, from, to, time).estimated_speed

\* C19: in both modes the speed of each step is the estimator's speed for
\* the step's two buoys at the step's own start_time, not at the startTime of
\* the exploration, so one edge sailed at two times may have two speeds.
C19_SpeedAtStepStart ==
    call.fn \in {"explore_paths", "explore_target_paths"} =>
        \A steps \in StepLists : \A i \in DOMAIN steps :
            steps[i].speed
                = EstimatedSpeed(steps[i].from, steps[i].to, steps[i].start_time)

\* a returned path sails the same edge twice at different speeds, the second
\* time at a speed that is not the estimate for the exploration's startTime
C19_Witness ==
    /\ pc = "returned" /\ result.kind = "Ok"
    /\ \E p \in DOMAIN result.paths :
          LET steps == result.paths[p].steps
          IN  \E i, j \in DOMAIN steps :
                 /\ i < j
                 /\ steps[i].from = steps[j].from
                 /\ steps[i].to = steps[j].to
                 /\ steps[i].distance = steps[j].distance
                 /\ steps[i].speed # steps[j].speed
                 /\ steps[j].speed
                      # EstimatedSpeed(steps[j].from, steps[j].to, call.start_time)

RECURSIVE SumDistances(_)
SumDistances(steps) ==
    IF steps = <<>> THEN 0
    ELSE steps[Len(steps)].distance + SumDistances(SubSeq(steps, 1, Len(steps) - 1))

\* the start and end times of the steps follow one another from startTime
TimesChained(steps) ==
    \A i \in DOMAIN steps :
        steps[i].start_time
            = (IF i = 1 THEN call.start_time ELSE steps[i - 1].end_time)

PathTotalsRight(p) ==
    /\ TimesChained(p.steps)
    /\ p.end_time = (IF p.steps = <<>> THEN call.start_time
                     ELSE p.steps[Len(p.steps)].end_time)
    /\ p.total_distance = SumDistances(p.steps)

\* C20: in every path of either mode the first step starts at the call's
\* startTime and each later step at the end_time of the step before it; the
\* path's end_time is the end_time of its last step (startTime for a path
\* without steps) and its total_distance is the sum of its steps' distances.
C20_TimesAndTotals ==
    call.fn \in {"explore_paths", "explore_target_paths"} =>
        /\ \A i \in DOMAIN all_paths : PathTotalsRight(all_paths[i])
        /\ \A i \in DOMAIN result.paths : PathTotalsRight(result.paths[i])
        /\ \A f \in DOMAIN stack :
              PathTotalsRight([steps |-> stack[f].state.current_steps,
                               end_time |-> stack[f].state.current_time,
                               total_distance |-> stack[f].state.total_distance])

\* a returned path of three steps that starts late, takes a different time
\* for each step and sails edges of different distances
C20_Witness ==
    /\ pc = "returned" /\ result.kind = "Ok"
    /\ call.start_time > 0
    /\ \E p \in DOMAIN result.paths :
          LET steps == result.paths[p].steps
          IN  /\ Len(steps) = 3
              /\ steps[1].distance # steps[2].distance
              /\ \A i, j \in DOMAIN steps :
                    i # j => (steps[i].end_time - steps[i].start_time
                                # steps[j].end_time - steps[j].start_time)

(***************************************************************************)
(* Steps and the rows of the tables                                        *)
(***************************************************************************)
Named(point, name) == point \in ValidPoints /\ At(data.boeien, point).name = name

\* the step sails start row k from its `from` buoy to its `to` buoy
StepOfStartRow(step, k) ==
    LET r == At(data.starts, k)
    IN  /\ Named(step.from, r.from) /\ Named(step.to, r.to)
        /\ step.distance = r.distance
\* the step sails leg row k in one of its two directions
StepOfLegRow(step, k) ==
    LET r == At(data.rakken, k)
    IN  /\ step.distance = r.distance
        /\ \/ Named(step.from, r.from) /\ Named(step.to, r.to)
           \/ Named(step.from, r.to) /\ Named(step.to, r.from)

StepsFollowRows(steps) ==
    \A i \in DOMAIN steps :
        /\ steps[i].from = (IF i = 1 THEN call.start_point ELSE steps[i - 1].to)
        /\ \/ \E k \in StartRows : StepOfStartRow(steps[i], k)
           \/ \E k \in LegRows : StepOfLegRow(steps[i], k)

\* C21: in every path of either mode the first step leaves from the start
\* index, each later step leaves from where the step before it arrived, and
\* every step is a start row sailed from its `from` to its `to` buoy or a leg
\* row sailed in one of its two directions, with the row's distance.
C21_StepsFollowRows ==
    call.fn \in {"explore_paths", "explore_target_paths"} =>
        \A steps \in StepLists : StepsFollowRows(steps)

\* a returned path sails a start row and then a leg against its direction
C21_Witness ==
    /\ pc = "returned" /\ result.kind = "Ok"
    /\ \E p \in DOMAIN result.paths :
          LET steps == result.paths[p].steps
          IN  /\ Len(steps) >= 2
              /\ \E k \in StartRows : StepOfStartRow(steps[1], k)
              /\ \E k \in LegRows :
                    /\ steps[2].distance = At(data.rakken, k).distance
                    /\ Named(steps[2].from, At(data.rakken, k).to)
                    /\ Named(steps[2].to, At(data.rakken, k).from)

(***************************************************************************)
(* Traversal times                                                         *)
(***************************************************************************)
Duration(step) == step.end_time - step.start_time

\* the duration, in 1/60 hour, is distance / speed rounded down to the unit
DurationIsDistanceOverSpeed(step, speed) ==
    /\ Duration(step) * speed <= step.distance * TimeScale
    /\ step.distance * TimeScale < (Duration(step) + 1) * speed

\* C22: the traversal time of every step is distance / speed when the
\* estimated speed is above 0 and distance / 1 knot when it is 0; an
\* estimated speed of 0 does not abort the exploration, which fails only at
\* an edge with an unresolved buoy, and every end_time is a number.
C22_TraversalTime ==
    call.fn \in {"explore_paths", "explore_target_paths"} =>
        /\ \A steps \in StepLists : \A i \in DOMAIN steps :
              /\ steps[i].speed >= 0
              /\ steps[i].end_time \in Nat
              /\ steps[i].speed > 0 =>
                    DurationIsDistanceOverSpeed(steps[i], steps[i].speed)
              /\ steps[i].speed = 0 => DurationIsDistanceOverSpeed(steps[i], 1)
        /\ pc = "panicked" =>
              ~(Resolved(TopEdge.source) /\ Resolved(TopEdge.target))

\* a returned path whose first step was estimated at 0 knots and took the
\* 1 knot time, followed by a step at a speed above 1 knot
C22_Witness ==
    /\ pc = "returned" /\ result.kind = "Ok"
    /\ \E p \in DOMAIN result.paths :
          LET steps == result.paths[p].steps
          IN  /\ Len(steps) >= 2
              /\ steps[1].speed = 0
              /\ Duration(steps[1]) = steps[1].distance * TimeScale
              /\ steps[2].speed > 1
              /\ Duration(steps[2]) < steps[2].distance * TimeScale

(***************************************************************************)
(* Visiting order                                                          *)
(***************************************************************************)
\* positions in graph.edges are the order in which build_regatta_graph
\* added the edges; the edges leaving a node, in that order
OutgoingIds(node) ==
    SelectSeq([e \in DOMAIN G |-> e], LAMBDA e : G[e].source = node)

WalkOf(steps) == CHOOSE w \in StepWalks(call.start_point, steps) : TRUE

\* the first position at which two walks differ
FirstDifference(w1, w2) ==
    CHOOSE d \in 1..Min(Len(w1), Len(w2)) :
        /\ w1[d] # w2[d]
        /\ \A c \in 1..(d - 1) : w1[c] = w2[c]

\* the edge a frame has entered: the last step of the frame above it
EnteredEdge(f) ==
    LET steps == stack[f + 1].state.current_steps
        w     == WalkOf(steps)
    IN  w[Len(w)]

\* C23: from each node the explorer visits the outgoing edges in the order
\* in which the graph builder added them, and the paths appear in the
\* depth-first order of that visiting order: of two paths, the one listed
\* first takes the earlier added edge where they part.
C23_InsertionOrder ==
    call.fn \in {"explore_paths", "explore_target_paths"} =>
        /\ \A f \in 1..(Len(stack) - 1) :
              EnteredEdge(f) = OutgoingIds(stack[f].state.current_point)[stack[f].pos]
        /\ \A i, j \in DOMAIN all_paths :
              i < j =>
                  LET w1 == WalkOf(all_paths[i].steps)
                      w2 == WalkOf(all_paths[j].steps)
                  IN  w1[FirstDifference(w1, w2)] < w2[FirstDifference(w1, w2)]

\* C23 as amended: from each node the explorer visits the outgoing edges in
\* the reverse of the order in which the graph builder added them (the edge
\* added last first), and the paths appear in the depth-first order of that
\* visiting order: of two paths, the one listed first takes the later added
\* edge where they part.
C23_ReverseInsertionOrder ==
    call.fn \in {"explore_paths", "explore_target_paths"} =>
        /\ \A f \in 1..(Len(stack) - 1) :
              LET out == OutgoingIds(stack[f].state.current_point)
              IN  EnteredEdge(f) = out[Len(out) + 1 - stack[f].pos]
        /\ \A i, j \in DOMAIN all_paths :
              i < j =>
                  LET w1 == WalkOf(all_paths[i].steps)
                      w2 == WalkOf(all_paths[j].steps)
                  IN  w1[FirstDifference(w1, w2)] > w2[FirstDifference(w1, w2)]

\* explore_paths returned three paths or more from a node with a start edge
\* and a leg edge, so that paths part at the first and at a later step
C23_Witness ==
    /\ ReturnedOk("explore_paths")
    /\ Len(result.paths) >= 3
    /\ Len(OutgoingIds(call.start_point)) >= 2
    /\ \E i, j \in DOMAIN result.paths :
          /\ result.paths[i].steps[1] # result.paths[j].steps[1]
    /\ \E i, j \in DOMAIN result.paths :
          /\ i # j
          /\ result.paths[i].steps[1] = result.paths[j].steps[1]

(***************************************************************************)
(* Branches                                                                *)
(***************************************************************************)
SlotOf(weight) ==
    IF weight.is_start THEN weight.index ELSE Len(data.starts) + weight.index

\* the counters are the traversal counts of the steps that lead to the frame
CountersOfOwnSteps(state) ==
    LET w == WalkOf(state.current_steps)
    IN  /\ \A i \in 0..(Len(state.edges_used) - 1) :
              At(state.edges_used, i)
                  = Cardinality({k \in DOMAIN w : SlotOf(G[w[k]].weight) = i})
        /\ call.fn = "explore_target_paths" =>
              \A i \in 0..(Len(state.rak_usage) - 1) :
                  At(state.rak_usage, i)
                      = Cardinality({k \in DOMAIN w : /\ ~G[w[k]].weight.is_start
                                                      /\ G[w[k]].weight.index = i})

\* C24: branches share no state.  A frame that stays on the stack keeps its
\* usage counters, step list, elapsed time and total distance through every
\* step of the exploration, the return from a branch included; the step list
\* of a frame is that of its caller plus one step; and the usage counters of
\* every frame are the traversal counts of exactly the steps that lead from
\* the start to that frame.
C24_BranchesIndependent ==
    /\ [][\A f \in DOMAIN stack :
             f \in DOMAIN stack' => stack'[f].state = stack[f].state]_vars
    /\ [](call.fn \in {"explore_paths", "explore_target_paths"} =>
            \A f \in DOMAIN stack :
               /\ CountersOfOwnSteps(stack[f].state)
               /\ f > 1 =>
                     /\ Len(stack[f].state.current_steps) = f - 1
                     /\ SubSeq(stack[f].state.current_steps, 1, f - 2)
                            = stack[f - 1].state.current_steps)

\* explore_paths has returned from a branch of two steps or more and entered
\* a sibling branch: the frame of the start node and its callee both stand
\* at a later edge, and the sibling sails a leg the earlier branch also used
C24_Witness ==
    /\ pc = "explore_paths"
    /\ Len(stack) >= 3
    /\ stack[1].pos >= 2
    /\ stack[2].pos >= 2
    /\ \E i \in DOMAIN all_paths : Len(all_paths[i].steps) >= 2
    /\ \E i \in 0..(Len(Top.state.edges_used) - 1) : At(Top.state.edges_used, i) >= 1

(***************************************************************************)
(* The cap of two traversals and fixed-depth mode                          *)
(***************************************************************************)
LegEndpoint(point, k) ==
    \/ Named(point, At(data.rakken, k).from)
    \/ Named(point, At(data.rakken, k).to)

ThreeStepsFromLeg(fn, k) ==
    /\ ReturnedOk(fn)
    /\ call.steps = 3
    /\ call.max_paths = None
    /\ LegKnown(k)
    /\ LegEndpoint(call.start_point, k)

SailsThrice(paths, k) ==
    \E i \in DOMAIN paths : Traversals(paths[i].steps, k) = 3

\* C25: fixed-depth mode does not apply the cap of two traversals per leg:
\* for a leg whose configured max_number is 3 or more, explore_paths with
\* three steps from one of the leg's buoys returns a path that sails the leg
\* three times, and explore_target_paths returns no such path from there.
C25_FixedDepthSailsLegThrice ==
    \A k \in LegRows :
        At(data.rakken, k).max_number >= 3 =>
            /\ ThreeStepsFromLeg("explore_paths", k) => SailsThrice(result.paths, k)
            /\ ThreeStepsFromLeg("explore_target_paths", k) =>
                  ~SailsThrice(result.paths, k)

\* what the explorers do: the same with the limit as explore_paths applies
\* it, max_number narrowed to 8 bits
FixedDepthSailsLegThriceWithinNarrowed ==
    \A k \in LegRows :
        AsU8(At(data.rakken, k).max_number) >= 3 =>
            /\ ThreeStepsFromLeg("explore_paths", k) => SailsThrice(result.paths, k)
            /\ ThreeStepsFromLeg("explore_target_paths", k) =>
                  ~SailsThrice(result.paths, k)

(***************************************************************************)
(* Termination                                                             *)
(***************************************************************************)
\* one call on a loaded dataset, run to its end: the exploration is
\* synchronous, a call in progress always takes its next step
RunningDatasets ==
    {Dataset(BoeienResolved, <<>>,
             << Rak("A", "B", 1, 1), Rak("B", "C", 1, 256) >>,
             ConstantWind, ConstantPolar),
     Dataset(BoeienUnresolved, <<>>, << Rak("A", "B", 1, 2), Rak("B", "C", 1, 2) >>,
             ConstantWind, ConstantPolar),
     DatasetVaryingWeather}

InitRunning ==
    /\ data \in RunningDatasets
    /\ graph = build_regatta_graph(data)
    /\ pc = "idle"
    /\ call = [fn |-> "none"]
    /\ stack = <<>>
    /\ all_paths = <<>>
    /\ result = NoResult

NextRunning ==
    \/ CallPaths
    \/ PathsSave
    \/ PathsSkip
    \/ PathsPanic
    \/ PathsRecurse
    \/ PathsLoopDone
    \/ PathsReturn
    \/ CallTarget
    \/ TargetSave
    \/ TargetExhausted
    \/ TargetSkipUsage
    \/ TargetSkipRak
    \/ TargetPanic
    \/ TargetRecurse
    \/ TargetCapReturn
    \/ TargetContinue
    \/ TargetLoopDone
    \/ TargetReturn

SpecRunning == InitRunning /\ [][NextRunning]_vars /\ WF_vars(NextRunning)

Exploring == pc \in {"explore_paths", "explore_target_paths"}
Finished == pc \in {"returned", "panicked"}

\* C26: both explorations terminate, and the recursion is never deeper than
\* the step bound: the budget of a frame is the step bound less the number
\* of calls above it, one less with every recursive call and never negative,
\* also when legs are sailed back and forth.
C26_TerminatesWithinBudget ==
    /\ [](Exploring =>
            /\ Len(stack) <= call.steps + 1
            /\ \A f \in DOMAIN stack :
                  /\ stack[f].state.remaining_steps \in Nat
                  /\ stack[f].state.remaining_steps = call.steps - (f - 1))
    /\ (Exploring ~> Finished)

\* the recursion is at its full depth on a walk that sails a leg forwards
\* and backwards
C26_Witness ==
    /\ Exploring
    /\ call.steps >= 4
    /\ Len(stack) = call.steps + 1
    /\ \E k \in LegRows :
          /\ LegKnown(k)
          /\ ForwardTraversals(Top.state.current_steps, k) # {}
          /\ BackwardTraversals(Top.state.current_steps, k) # {}

(***************************************************************************)
(* One call after another                                                  *)
(***************************************************************************)
AllZero(vec) == \A i \in DOMAIN vec : vec[i] = 0

\* the first frame of a call is made of the call's arguments alone
FreshFirstFrame(frame) ==
    /\ frame.pos = 1
    /\ frame.state.current_point = call'.start_point
    /\ frame.state.current_time = call'.start_time
    /\ frame.state.remaining_steps = call'.steps
    /\ frame.state.current_steps = <<>>
    /\ frame.state.total_distance = 0
    /\ Len(frame.state.edges_used) = Len(data.starts) + Len(data.rakken)
    /\ AllZero(frame.state.edges_used)
    /\ call'.fn = "explore_target_paths" =>
          /\ Len(frame.state.rak_usage) = Len(data.rakken)
          /\ AllZero(frame.state.rak_usage)

\* C27: no step of an exploration changes the dataset or the graph, and
\* every call, whatever calls were made before it on the same dataset,
\* starts with an empty path list and a first frame made of its arguments
\* alone, with all usage counters at zero: what it returns depends on the
\* dataset and its arguments only, and usage consumed by one call does not
\* reduce the budget of a later one.
C27_CallsStartAfresh ==
    /\ [][/\ data' = data
          /\ graph' = graph
          /\ (pc = "idle" /\ pc' # "idle") =>
                /\ all_paths' = <<>>
                /\ result' \in {NoResult, Err}
                /\ Len(stack') <= 1
                /\ \A f \in DOMAIN stack' : FreshFirstFrame(stack'[f])]_vars
    /\ [](Exploring /\ stack # <<>> =>
            /\ AllZero(stack[1].state.edges_used)
            /\ stack[1].state.current_steps = <<>>)
    /\ [](pc = "idle" => stack = <<>> /\ all_paths = <<>> /\ result = NoResult)

\* a call of two steps or more has just started on a dataset with two legs
C27_Witness ==
    /\ Exploring
    /\ Len(stack) = 1 /\ stack[1].pos = 1
    /\ call.steps >= 2
    /\ Len(stack[1].state.edges_used) >= 2
    /\ AllZero(stack[1].state.edges_used)
    /\ all_paths = <<>>

(***************************************************************************)
(* The usage test and the width of the counters                            *)
(***************************************************************************)
\* the edge loop of the innermost call stands at an edge that the cap of two
\* (target mode) does not exclude
AtEdge ==
    /\ Exploring
    /\ stack # <<>>
    /\ Top.state.remaining_steps > 0
    /\ Top.pos <= Len(TopEdges)
    /\ pc = "explore_target_paths" =>
          /\ ~Top.returned
          /\ Top.state.current_point # Top.state.target_point
          /\ TopEdge.weight.is_start
                \/ At(Top.state.rak_usage, TopEdge.weight.index) < 2

EdgeSkipped ==
    /\ Len(stack') = Len(stack)
    /\ stack'[Len(stack)].pos = Top.pos + 1
EdgeTaken == pc' = "panicked" \/ Len(stack') = Len(stack) + 1

\* C28: the usage test is exact for every max_number of the tables: an edge
\* is skipped if and only if the usage counter of its entity has reached the
\* configured max_number, so an entity with max_number 256 or more is as
\* usable as configured; and no counter exceeds 255.
C28_UsageTestExact ==
    /\ [][AtEdge =>
            LET slot == SlotOf(TopEdge.weight)
            IN  IF At(Top.state.edges_used, slot) >= SlotMax(slot)
                  THEN EdgeSkipped
                  ELSE EdgeTaken]_vars
    /\ [](\A f \in DOMAIN stack :
             \A i \in DOMAIN stack[f].state.edges_used :
                 stack[f].state.edges_used[i] <= 255)

\* what the explorers do: the test is against max_number narrowed to 8 bits
UsageTestAgainstNarrowed ==
    /\ [][AtEdge =>
            LET slot == SlotOf(TopEdge.weight)
            IN  IF At(Top.state.edges_used, slot) >= AsU8(SlotMax(slot))
                  THEN EdgeSkipped
                  ELSE EdgeTaken]_vars
    /\ [](\A f \in DOMAIN stack :
             \A i \in DOMAIN stack[f].state.edges_used :
                 stack[f].state.edges_used[i] <= 255)

(***************************************************************************)
(* Callers of the estimator and of the explorer (main.rs, server.rs)       *)
(***************************************************************************)
\* the limits the handlers test their parameters against; the time limit is
\* 24 hours in units of 1/60 hour
MaxRequestTime == 1440
MaxRequestSteps == 10
MaxRequestPaths == 100000

\* data.get_boei_index(name): the position of the buoy in data.boeien
get_boei_index(d, name) ==
    LET hits == {i \in 0..(Len(d.boeien) - 1) : At(d.boeien, i).name = name}
    IN  IF hits = {} THEN None
        ELSE Some(CHOOSE i \in hits : \A j \in hits : i <= j)

\* data.get_boei(name): the buoy of that name
get_boei(d, name) ==
    LET hits == SelectSeq(d.boeien, LAMBDA b : b.name = name)
    IN  IF hits = <<>> THEN None ELSE Some(Head(hits))

\* the JSON object with the fields "error" and "message"
ErrorResponse(error) == [kind |-> "error_response", paths |-> <<>>, error |-> error]
\* the Err(Box<dyn Error>) of the command
CommandError(message) == [kind |-> "Err", paths |-> <<>>, error |-> message]

\* the call of estimate_leg_performance at the end of its three callers
call_estimator(from_idx, to_idx, time) ==
    IF estimate_panics(data, from_idx, to_idx)
      THEN /\ result' = Panicked
           /\ pc' = "panicked"
      ELSE /\ result' = Performance(estimate_leg_performance(data, from_idx,
                                                             to_idx, time))
           /\ pc' = "returned"

\* main.rs, the estimate command
estimate_leg_performance_command(from_name, to_name, time) ==
    LET from_boei  == get_boei(data, from_name)
        to_boei    == get_boei(data, to_name)
        from_index == get_boei_index(data, from_name)
        to_index   == get_boei_index(data, to_name)
    IN  /\ pc = "idle"
        /\ call' = [fn |-> "estimate_leg_performance_command", from |-> from_name,
                    to |-> to_name, time |-> time]
        /\ IF ~IsSome(from_boei) \/ ~IsSome(to_boei)
             THEN result' = CommandError("Buoy not found") /\ pc' = "returned"
           ELSE IF ~IsSome(from_index) \/ ~IsSome(to_index)
             THEN result' = CommandError("Buoy not found in index") /\ pc' = "returned"
           ELSE IF ~has_coordinates(Unwrap(from_boei))
                   \/ ~has_coordinates(Unwrap(to_boei))
             THEN result' = CommandError("Both buoys must have valid coordinates")
                  /\ pc' = "returned"
           ELSE call_estimator(Unwrap(from_index), Unwrap(to_index), time)
        /\ UNCHANGED <<data, graph, stack, all_paths>>

\* server.rs, GET estimate
handle_estimate(from, to, time) ==
    LET from_idx == get_boei_index(data, from)
        to_idx   == get_boei_index(data, to)
    IN  /\ pc = "idle"
        /\ call' = [fn |-> "handle_estimate", from |-> from, to |-> to,
                    time |-> time]
        /\ IF ~IsSome(from_idx) \/ ~IsSome(to_idx)
             THEN result' = ErrorResponse("Boei not found") /\ pc' = "returned"
           ELSE IF f64_lt(time, 0)
             THEN result' = ErrorResponse("Invalid time") /\ pc' = "returned"
           ELSE call_estimator(Unwrap(from_idx), Unwrap(to_idx), time)
        /\ UNCHANGED <<data, graph, stack, all_paths>>

\* server.rs, GET estimate-leg: reverse swaps the two names first
handle_estimate_leg(from, to, reverse, time) ==
    LET swap      == IF IsSome(reverse) THEN Unwrap(reverse) ELSE FALSE
        from_name == IF swap THEN to ELSE from
        to_name   == IF swap THEN from ELSE to
        from_idx  == get_boei_index(data, from_name)
        to_idx    == get_boei_index(data, to_name)
    IN  /\ pc = "idle"
        /\ call' = [fn |-> "handle_estimate_leg", from |-> from, to |-> to,
                    reverse |-> reverse, time |-> time]
        /\ IF ~IsSome(from_idx) \/ ~IsSome(to_idx)
             THEN result' = ErrorResponse("Boei not found") /\ pc' = "returned"
           ELSE IF f64_lt(time, 0)
             THEN result' = ErrorResponse("Invalid time") /\ pc' = "returned"
           ELSE call_estimator(Unwrap(from_idx), Unwrap(to_idx), time)
        /\ UNCHANGED <<data, graph, stack, all_paths>>

\* the reply of a handler that returns before it explores
reject(request, error) ==
    /\ pc = "idle"
    /\ call' = request
    /\ result' = ErrorResponse(error)
    /\ pc' = "returned"
    /\ UNCHANGED <<data, graph, stack, all_paths>>

invalid_time(time) == f64_lt(time, 0) \/ f64_gt(time, MaxRequestTime)
invalid_steps(steps) == steps = 0 \/ steps > MaxRequestSteps
invalid_max_paths(max_paths) ==
    /\ IsSome(max_paths)
    /\ (Unwrap(max_paths) = 0 \/ Unwrap(max_paths) > MaxRequestPaths)

\* server.rs, GET find-paths
handle_find_paths(start, time, steps, max_paths) ==
    LET start_idx == get_boei_index(data, start)
        request   == [fn |-> "handle_find_paths", start |-> start, time |-> time,
                      steps |-> steps, max_paths |-> max_paths]
    IN  IF ~IsSome(start_idx) THEN reject(request, "Buoy not found")
        ELSE IF invalid_time(time) THEN reject(request, "Invalid time")
        ELSE IF invalid_steps(steps) THEN reject(request, "Invalid steps")
        ELSE IF invalid_max_paths(max_paths) THEN reject(request, "Invalid max_paths")
        ELSE explore_paths(Unwrap(start_idx), time, steps, max_paths)

\* server.rs, GET find-target
handle_find_target(start, target, time, steps, max_paths) ==
    LET start_idx  == get_boei_index(data, start)
        target_idx == get_boei_index(data, target)
        request    == [fn |-> "handle_find_target", start |-> start,
                       target |-> target, time |-> time, steps |-> steps,
                       max_paths |-> max_paths]
    IN  IF ~IsSome(start_idx) \/ ~IsSome(target_idx)
          THEN reject(request, "Buoy not found")
        ELSE IF invalid_time(time) THEN reject(request, "Invalid time")
        ELSE IF invalid_steps(steps) THEN reject(request, "Invalid steps")
        ELSE IF invalid_max_paths(max_paths) THEN reject(request, "Invalid max_paths")
        ELSE IF Unwrap(start_idx) = Unwrap(target_idx)
          THEN reject(request, "Invalid request")
        ELSE explore_target_paths(Unwrap(start_idx), Unwrap(target_idx), time,
                                  steps, max_paths)

\* the requests: known names and one unknown, times below, inside, on the edge
\* of and above the day, and one that is no number
RequestNames == {"A", "B", "C", "X"}
RequestTimes == {NAN, -60, 0, MaxRequestTime, MaxRequestTime + 60}
RequestSteps == {0, 1, MaxRequestSteps, MaxRequestSteps + 1}
RequestMaxPaths ==
    {None, Some(0), Some(1), Some(MaxRequestPaths), Some(MaxRequestPaths + 1)}
RequestReverse == {None, Some(FALSE), Some(TRUE)}

ServerDatasets ==
    {Dataset(BoeienUnresolved, <<>>, << Rak("A", "B", 1, 2), Rak("B", "C", 1, 2) >>,
             ConstantWind, ConstantPolar),
     DatasetVaryingWeather}

CommandEstimate ==
    \E from_name \in RequestNames, to_name \in RequestNames, time \in RequestTimes :
        estimate_leg_performance_command(from_name, to_name, time)

GetEstimate ==
    \E from \in RequestNames, to \in RequestNames, time \in RequestTimes :
        handle_estimate(from, to, time)

GetEstimateLeg ==
    \E from \in RequestNames, to \in RequestNames, reverse \in RequestReverse,
       time \in RequestTimes :
        handle_estimate_leg(from, to, reverse, time)

GetFindPaths ==
    \E start \in RequestNames, time \in RequestTimes, steps \in RequestSteps,
       max_paths \in RequestMaxPaths :
        handle_find_paths(start, time, steps, max_paths)

GetFindTarget ==
    \E start \in RequestNames, target \in RequestNames, time \in RequestTimes,
       steps \in RequestSteps, max_paths \in RequestMaxPaths :
        handle_find_target(start, target, time, steps, max_paths)

InitServer ==
    /\ data \in ServerDatasets
    /\ graph = build_regatta_graph(data)
    /\ pc = "idle"
    /\ call = [fn |-> "none"]
    /\ stack = <<>>
    /\ all_paths = <<>>
    /\ result = NoResult

NextServer ==
    \/ CommandEstimate
    \/ GetEstimate
    \/ GetEstimateLeg
    \/ GetFindPaths
    \/ PathsSave
    \/ PathsSkip
    \/ PathsPanic
    \/ PathsRecurse
    \/ PathsLoopDone
    \/ PathsReturn
    \/ GetFindTarget
    \/ TargetSave
    \/ TargetExhausted
    \/ TargetSkipUsage
    \/ TargetSkipRak
    \/ TargetPanic
    \/ TargetRecurse
    \/ TargetCapReturn
    \/ TargetContinue
    \/ TargetLoopDone
    \/ TargetReturn
    \/ DropResult

SpecServer == InitServer /\ [][NextServer]_vars

\* the request of an estimator caller names two buoys of the table, one of
\* them without coordinates
NamesBoeiWithoutCoordinates ==
    /\ call.fn \in {"estimate_leg_performance_command", "handle_estimate",
                    "handle_estimate_leg"}
    /\ IsSome(get_boei(data, call.from)) /\ IsSome(get_boei(data, call.to))
    /\ \/ ~has_coordinates(Unwrap(get_boei(data, call.from)))
       \/ ~has_coordinates(Unwrap(get_boei(data, call.to)))

\* C29: every caller of estimate_leg_performance outside the explorer checks
\* the coordinates of both buoys first: a request that names an existing buoy
\* without coordinates ends in an error reply and never in the panic of the
\* estimator's unwrap().
C29_CallersCheckCoordinates ==
    NamesBoeiWithoutCoordinates =>
        pc = "returned" /\ result.kind \in {"error_response", "Err"}

\* the command does check: its request for such a buoy is answered by the error
CommandChecksCoordinates ==
    (NamesBoeiWithoutCoordinates /\ call.fn = "estimate_leg_performance_command")
        => (pc = "returned" /\ result.kind = "Err")

(***************************************************************************)
(* Guards of the find-paths and find-target handlers                       *)
(***************************************************************************)
\* under SpecServer every exploration is started by one of the two handlers
ExplorationByHandler == call.fn \in {"explore_paths", "explore_target_paths"}
RejectedByHandler == call.fn \in {"handle_find_paths", "handle_find_target"}

\* the guards as the specification states them, on the arguments the
\* exploration was called with
TimeWithinDay ==
    /\ call.start_time # NAN
    /\ 0 <= call.start_time /\ call.start_time <= MaxRequestTime
StepsWithinLimit == 1 <= call.steps /\ call.steps <= MaxRequestSteps
MaxPathsWithinLimit ==
    \/ call.max_paths = None
    \/ (1 <= Unwrap(call.max_paths) /\ Unwrap(call.max_paths) <= MaxRequestPaths)
PointsResolved ==
    /\ call.start_point \in ValidPoints
    /\ call.fn = "explore_target_paths" =>
          (call.target_point \in ValidPoints /\ call.start_point # call.target_point)

\* a rejected request fails one of the stated guards
SomeGuardFails ==
    \/ ~IsSome(get_boei_index(data, call.start))
    \/ ~(call.time # NAN /\ 0 <= call.time /\ call.time <= MaxRequestTime)
    \/ ~(1 <= call.steps /\ call.steps <= MaxRequestSteps)
    \/ (call.max_paths # None
          /\ ~(1 <= Unwrap(call.max_paths) /\ Unwrap(call.max_paths) <= MaxRequestPaths))
    \/ (call.fn = "handle_find_target"
          /\ (~IsSome(get_boei_index(data, call.target))
                \/ get_boei_index(data, call.start) = get_boei_index(data, call.target)))

NoExploration ==
    pc = "returned" /\ result.kind = "error_response" /\ stack = <<>> /\ all_paths = <<>>

\* C30: the find-target handler calls explore_target_paths only when both names
\* resolve, 0 <= time <= 24, 1 <= steps <= 10, max_paths is absent or within
\* 1..100000 and start differs from target; a request failing a guard is
\* answered by an error response without any exploration.  The find-paths
\* handler does the same without the target guards.
C30_HandlersGuardExploration ==
    /\ ExplorationByHandler =>
          (PointsResolved /\ TimeWithinDay /\ StepsWithinLimit /\ MaxPathsWithinLimit)
    /\ RejectedByHandler => (NoExploration /\ SomeGuardFails)

\* what the handlers do ensure: the same, for every time that is a number
HandlersGuardExplorationOfNumbers ==
    /\ (ExplorationByHandler /\ call.start_time # NAN) =>
          (PointsResolved /\ TimeWithinDay /\ StepsWithinLimit /\ MaxPathsWithinLimit)
    /\ RejectedByHandler => (NoExploration /\ SomeGuardFails)

====
